---- MODULE Spec2Model ----
(***************************************************************************)
(* Model of comps/cores/mega/orchestrator.py: the metrics singleton        *)
(* (OrchestratorMetrics), the per-request schedule engine                  *)
(* (ServiceOrchestrator.schedule / execute) and the stream stitcher        *)
(* (execute.generate, token_generator, extract_chunk_str).                 *)
(*                                                                         *)
(* Python strings are modelled as sequences of one-character strings.      *)
(*                                                                         *)
(* Specifications:                                                         *)
(*   Spec         one request, unary or streaming, up to the return of     *)
(*                schedule, on every DAG of four services                  *)
(*   SpecOverlap  MaxRequests unary requests in flight together            *)
(*   SpecStream   one streaming request and the clients reading the        *)
(*                streams schedule returned                                *)
(*   SpecTruncated  the same on an upstream that closes without [DONE]     *)
(*   SpecMetrics  MaxThreads threads calling the metric update methods     *)
(*   SpecLive     one request under the assumption that every call ends    *)
(*   SpecFraming  one token string framed by token_generator and unframed  *)
(*                by extract_chunk_str                                     *)
(***************************************************************************)
EXTENDS Integers, Sequences, FiniteSets, TLC

(***************************************************************************)
(* Bounds of the model.                                                    *)
(***************************************************************************)
\* requests that may overlap in specification SpecOverlap
MaxRequests == 2
\* nodes whose response is not a plain structured payload, per configuration
MaxSpecial == 1
\* nodes that answer with a black list, per configuration of SpecOverlap
MaxBlack == 2
\* threads that call the metric update methods in specification SpecMetrics
MaxThreads == 3
\* token chunks of an upstream stream before its [DONE] chunk, in SpecStream
MaxTokens == 2
\* characters of a token string in specification SpecFraming
MaxTokenLen == 3

(***************************************************************************)
(* Node names and the services registered under them.                      *)
(***************************************************************************)
NA == <<"A">>
NB == <<"B">>
NC == <<"C">>
ND == <<"C", "D">>
NodeList == <<NA, NB, NC, ND>>
Nodes == {NodeList[i] : i \in 1..Len(NodeList)}
Idx(n) == CHOOSE i \in 1..Len(NodeList) : NodeList[i] = n

Requests == 1..MaxRequests

(***************************************************************************)
(* DAG (comps/cores/mega/dag.py is not part of the sources; its operations *)
(* follow section 4.A of the specification).  A graph maps every node to   *)
(* the set of its direct successors.                                       *)
(***************************************************************************)
downstream(g, n) == g[n]

predecessors(g, n) == {k \in DOMAIN g : n \in g[k]}

ind_nodes(g) == {n \in DOMAIN g : predecessors(g, n) = {}}

all_leaves(g) == {n \in DOMAIN g : g[n] = {}}

RECURSIVE Reach(_, _, _)
Reach(g, frontier, seen) ==
    LET next == (UNION {g[n] : n \in frontier}) \ seen
    IN  IF next = {} THEN seen ELSE Reach(g, next, seen \cup next)

all_downstreams(g, n) == Reach(g, {n}, {})

delete_edge(g, u, v) == [g EXCEPT ![u] = @ \ {v}]

delete_node_if_exists(g, n) ==
    [k \in (DOMAIN g) \ {n} |-> g[k] \ {n}]

(***************************************************************************)
(* Regular expressions of black lists.  The patterns of the model are      *)
(* literals, ".*" and the malformed "(".                                   *)
(***************************************************************************)
PAll == <<".", "*">>
PBad == <<"(">>

\* re.compile raises re.error on an unbalanced parenthesis
re_error(p) ==
    Cardinality({i \in 1..Len(p) : p[i] = "("}) # Cardinality({i \in 1..Len(p) : p[i] = ")"})

IsSubstring(p, s) ==
    \E i \in 0..(Len(s) - Len(p)) : \A j \in 1..Len(p) : s[i + j] = p[j]

\* truth value of re.findall(p, s) for a well-formed p: a search, not a full match
re_findall(p, s) == IF p = PAll THEN TRUE ELSE IsSubstring(p, s)

(***************************************************************************)
(* Responses.  kind: "json" (structured payload), "audio" (raw bytes),     *)
(* "error" (the call raises), "stream" (StreamingResponse), "none" (no     *)
(* entry in the result table).                                             *)
(***************************************************************************)
NoSid == <<>>
KText == <<"t", "e", "x", "t">>
KBlack == <<"b", "l">>
KQuery == <<"q">>

Response(kind, hasbl, bl, hastext, data, sid) ==
    [kind |-> kind, hasbl |-> hasbl, bl |-> bl, hastext |-> hastext,
     data |-> data, sid |-> sid]

NoResult == Response("none", FALSE, <<>>, FALSE, {}, NoSid)
AudioBytes == Response("audio", FALSE, <<>>, FALSE, {}, NoSid)
TransportError == Response("error", FALSE, <<>>, FALSE, {}, NoSid)
StreamingResponse(sid) == Response("stream", FALSE, <<>>, FALSE, {}, sid)

\* the structured payload node n answers with: its own key, "text" and
\* "downstream_black_list" when present; values are tagged with the node
Payload(n, hasbl, bl, hastext) ==
    Response("json", hasbl, bl, hastext,
             {<<n, n>>}
               \cup (IF hastext THEN {<<KText, n>>} ELSE {})
               \cup (IF hasbl THEN {<<KBlack, n>>} ELSE {}),
             NoSid)

\* what a node may be configured to answer
PlainOf(n) == Payload(n, FALSE, <<>>, TRUE)

BlackLists == {<<>>, <<PAll>>, <<PBad>>, <<PBad, NC>>}

InitialInputs == {<<KQuery, KQuery>>}

(***************************************************************************)
(* State.                                                                  *)
(***************************************************************************)
VARIABLES
    heap,          \* graph objects: reference -> node -> successors
    graph0,        \* the template graph as it was built (history)
    services,      \* node -> service_type
    resp,          \* node -> what the remote service answers
    nreq,          \* number of requests of this run
    pc,            \* request -> "idle" | "wait" | "done" | "failed"
    stream,        \* request -> llm_parameters.stream
    rgraph,        \* request -> reference held by runtime_graph.graph
    roots,         \* request -> ind_nodes
    result_dict,   \* request -> node -> response
    pending,       \* request -> set of tasks in flight
    execCount,     \* request -> node -> number of execute() invocations
    hist,          \* request -> what schedule did, for the properties (history)
    completed,     \* request -> nodes whose execute() has returned (history)
    incs,          \* request -> pending_update(True) calls (history)
    decs,          \* request -> pending_update(False) calls (history)
    metrics,       \* the OrchestratorMetrics singleton
    streams,       \* StreamingResponse objects and their generators
    upstream,      \* the chunks a streaming LLM/LVM service sends
    uptokens,      \* the token strings that service framed (history)
    rt,            \* one token string on its way through the framing functions
    lock,          \* OrchestratorMetrics._lock: 0 or the thread holding it
    tpc,           \* thread -> where it is in a metric update call
    top,           \* thread -> the update operation it calls
    tsaw           \* thread -> the method it read when it made the call (history)

schedVars == <<heap, graph0, services, resp, nreq, pc, stream, rgraph, roots,
               result_dict, pending, execCount, hist, completed, incs, decs>>
thrVars == <<lock, tpc, top, tsaw>>
envVars == <<upstream, uptokens, rt>>
vars == <<schedVars, metrics, streams, envVars, thrVars>>

TemplateRef == 0
Refs == {TemplateRef} \cup Requests
NullGraph == [n \in {} |-> {}]

(***************************************************************************)
(* OrchestratorMetrics, as seen by one caller at a time.                   *)
(***************************************************************************)
Ops == {"token", "request", "pending"}
MetricNames == {"megaservice_first_token_latency", "megaservice_inter_token_latency",
                "megaservice_request_latency", "megaservice_request_pending"}
NamesOf(op) ==
    CASE op = "token" -> {"megaservice_first_token_latency", "megaservice_inter_token_latency"}
      [] op = "request" -> {"megaservice_request_latency"}
      [] op = "pending" -> {"megaservice_request_pending"}

MetricsInit ==
    [method |-> [op \in Ops |-> "create"],
     registered |-> [nm \in MetricNames |-> 0],
     applied |-> [op \in Ops |-> 0],
     request_pending |-> 0]

\* the body under the lock of _token/_request/_pending_update_create
create_locked(m, op) ==
    IF m.method[op] = "create"
    THEN [m EXCEPT !.registered = [nm \in MetricNames |->
                                      IF nm \in NamesOf(op) THEN @[nm] + 1 ELSE @[nm]],
                   !.method[op] = "real"]
    ELSE m

_pending_update_real(m, increase) ==
    [m EXCEPT !.request_pending = IF increase THEN @ + 1 ELSE @ - 1,
              !.applied["pending"] = @ + 1]

_request_update_real(m) == [m EXCEPT !.applied["request"] = @ + 1]

_token_update_real(m) == [m EXCEPT !.applied["token"] = @ + 1]

pending_update(m, increase) == _pending_update_real(create_locked(m, "pending"), increase)

request_update(m) == _request_update_real(create_locked(m, "request"))

token_update(m) == _token_update_real(create_locked(m, "token"))

(***************************************************************************)
(* OrchestratorMetrics under threads: the generators of streaming          *)
(* responses run in worker threads, so first calls may interleave at every *)
(* attribute read, lock operation and assignment.                          *)
(***************************************************************************)
Threads == 1..MaxThreads
NoThread == 0

\* faulty variant of lines 51, 64, 74: the method is not compared under the lock
still_create_unchecked(m, op) == TRUE

\* lines 51, 64, 74: "in case another thread already got here"
still_create(m, op) == m.method[op] = "create"

\* self.metrics.<op>_update(...): the attribute is read and the bound method
\* it holds is entered
TCall(t, op) ==
    /\ tpc[t] = "idle"
    /\ top' = [top EXCEPT ![t] = op]
    /\ tsaw' = [tsaw EXCEPT ![t] = metrics.method[op]]
    /\ tpc' = [tpc EXCEPT ![t] = IF metrics.method[op] = "create" THEN "acquire" ELSE "real"]
    /\ UNCHANGED <<schedVars, metrics, streams, envVars, lock>>

\* with self._lock: (lines 49, 62, 72)
TAcquire(t) ==
    /\ tpc[t] = "acquire"
    /\ lock = NoThread
    /\ lock' = t
    /\ tpc' = [tpc EXCEPT ![t] = "check"]
    /\ UNCHANGED <<schedVars, metrics, streams, envVars, top, tsaw>>

\* lines 51, 64, 74
TCheck(t) ==
    /\ tpc[t] = "check"
    /\ tpc' = [tpc EXCEPT ![t] = IF still_create(metrics, top[t]) THEN "construct"
                                                                ELSE "release"]
    /\ UNCHANGED <<schedVars, metrics, streams, envVars, lock, top, tsaw>>

\* lines 52-57, 65-67, 75-77: Histogram(...) / Gauge(...) registers its name
TConstruct(t) ==
    /\ tpc[t] = "construct"
    /\ metrics' = [metrics EXCEPT !.registered =
                      [nm \in MetricNames |->
                          IF nm \in NamesOf(top[t]) THEN @[nm] + 1 ELSE @[nm]]]
    /\ tpc' = [tpc EXCEPT ![t] = "assign"]
    /\ UNCHANGED <<schedVars, streams, envVars, lock, top, tsaw>>

\* lines 58, 68, 78: self.<op>_update = self._<op>_update_real
TAssign(t) ==
    /\ tpc[t] = "assign"
    /\ metrics' = [metrics EXCEPT !.method[top[t]] = "real"]
    /\ tpc' = [tpc EXCEPT ![t] = "release"]
    /\ UNCHANGED <<schedVars, streams, envVars, lock, top, tsaw>>

\* faulty variant: the creating method returns without the call of lines
\* 59, 69, 79
after_create_return(op) == "done"

\* lines 59, 69, 79: after the with block the creating method calls
\* self.<op>_update(...), which is the real method by then
after_create(op) == "real"

\* the end of the with block
TRelease(t) ==
    /\ tpc[t] = "release"
    /\ lock' = NoThread
    /\ tpc' = [tpc EXCEPT ![t] = after_create(top[t])]
    /\ UNCHANGED <<schedVars, metrics, streams, envVars, top, tsaw>>

\* lines 59, 69, 79 and 81-96: the real method observes
TReal(t) ==
    /\ tpc[t] = "real"
    /\ metrics.method[top[t]] = "real"
    /\ metrics' = [metrics EXCEPT !.applied[top[t]] = @ + 1]
    /\ tpc' = [tpc EXCEPT ![t] = "done"]
    /\ UNCHANGED <<schedVars, streams, envVars, lock, top, tsaw>>

(***************************************************************************)
(* Streams: one object per StreamingResponse a request may create.         *)
(***************************************************************************)
StreamIds == Requests \X Nodes \X {"llm", "fake"}

StreamObj(st, ok, down, up, text) ==
    [st |-> st, ok |-> ok, down |-> down, up |-> up, text |-> text,
     buf |-> <<>>, events |-> <<>>, posts |-> <<>>, is_first |-> TRUE]

NoStream == StreamObj("none", FALSE, FALSE, <<>>, <<>>)

(***************************************************************************)
(* Tasks: asyncio tasks running execute(node, inputs).                     *)
(***************************************************************************)
Task(n, inputs) == [node |-> n, inputs |-> inputs]

\* what awaiting a finished task gives: an exception or (response, node)
Raised(n) == [node |-> n, raises |-> TRUE, rnode |-> n, rresp |-> NoResult]
Returned(n, response, cur_node) ==
    [node |-> n, raises |-> FALSE, rnode |-> cur_node, rresp |-> response]

\* dict.update of d1 with d2
DictUpdate(d1, d2) == {p \in d1 : ~ \E q \in d2 : q[1] = p[1]} \cup d2

\* faulty variant: every structured entry of the result table is merged,
\* whatever prev_nodes holds
process_outputs_all(prev_nodes, res) ==
    LET RECURSIVE Go(_, _)
        Go(i, acc) ==
            IF i > Len(NodeList) THEN acc
            ELSE Go(i + 1, IF res[NodeList[i]].kind = "json"
                           THEN DictUpdate(acc, res[NodeList[i]].data)
                           ELSE acc)
    IN  Go(1, {})

\* process_outputs: merge of the predecessors' payloads, later ones winning
process_outputs(prev_nodes, res) ==
    LET RECURSIVE Go(_, _)
        Go(i, acc) ==
            IF i > Len(NodeList) THEN acc
            ELSE Go(i + 1, IF NodeList[i] \in prev_nodes
                           THEN DictUpdate(acc, res[NodeList[i]].data)
                           ELSE acc)
    IN  Go(1, {})

\* faulty variant: entries that are missing or no mapping are skipped
process_outputs_lenient(prev_nodes, res) == FALSE

\* result_dict[prev_node] raises KeyError without an entry, and dict.update
\* raises TypeError unless the entry is a mapping
process_outputs_raises(prev_nodes, res) ==
    \E p \in prev_nodes : res[p].kind # "json"

(***************************************************************************)
(* schedule: the processing of one completed task (lines 151-189).         *)
(* The local state of schedule is the record                               *)
(*   [g, res, pend, cnt, hist, comp, round, failed]                        *)
(* g: runtime graph, res: result_dict, pend: pending, cnt: dispatch        *)
(* counters, hist: the history record, comp: the nodes whose execute has   *)
(* returned, round: the nodes of the tasks this wait returned, failed: an  *)
(* exception left schedule.                                                *)
(* The history record of a request:                                        *)
(*   unmet[d]      predecessors of d without a completed result when d was *)
(*                 dispatched                                              *)
(*   dispatcher[d] the node whose completion dispatched d                  *)
(*   scanned[n]    the successors the readiness scan of n went over        *)
(*   readyAt[n]    those of them whose predecessors all had results        *)
(*   raisedAt      the node at whose completion an exception left schedule *)
(*   joint[d]      at least two predecessors of d were returned as done by *)
(*                 the wait in whose turn d was dispatched                 *)
(*   predsAt[d]    runtime_graph.predecessors(d) when d was dispatched     *)
(*   inputs[d]     the inputs execute(d) was created with                  *)
(***************************************************************************)
RECURSIVE DeleteEdges(_, _, _)
DeleteEdges(g, u, vs) ==
    IF vs = {} THEN g
    ELSE LET v == CHOOSE x \in vs : TRUE
         IN  DeleteEdges(delete_edge(g, u, v), u, vs \ {v})

\* faulty variant: the handler of re.error prunes instead of skipping
BlackHits_pruneOnError(p, ds) == {d \in ds : re_error(p) \/ re_findall(p, d)}

\* the successors one pattern removes (lines 160-168); re.error is swallowed
BlackHits(p, ds) == IF re_error(p) THEN {} ELSE {d \in ds : re_findall(p, d)}

\* lines 169-178: the synthesized stream replaces the node's entry
FakeStreamFallback(b, r, node, response, strm) ==
    IF b.ds = {} /\ strm
    THEN IF response.hastext
         THEN [b EXCEPT !.res[node] = StreamingResponse(<<r, node, "fake">>)]
         ELSE [b EXCEPT !.failed = TRUE]
    ELSE b

\* faulty variant: line 166 (downstreams.remove) is missing
Prune_keepView(b, node, hit) == [b EXCEPT !.g = DeleteEdges(b.g, node, hit)]

\* lines 165-166: the edges go from the graph and from the local view
Prune(b, node, hit) ==
    [b EXCEPT !.g = DeleteEdges(b.g, node, hit), !.ds = b.ds \ hit]

\* lines 159-178, b = [g, ds, res, failed]
RECURSIVE ApplyBlackList(_, _, _, _, _, _)
ApplyBlackList(b, pats, r, node, response, strm) ==
    IF pats = <<>> \/ b.failed THEN b
    ELSE ApplyBlackList(
           FakeStreamFallback(Prune(b, node, BlackHits(Head(pats), b.ds)),
                              r, node, response, strm),
           Tail(pats), r, node, response, strm)

\* line 181
IsReady(g, res, d) == \A i \in predecessors(g, d) : res[i].kind # "none"

NoNode == <<>>

HistInit ==
    [unmet |-> [n \in Nodes |-> {}],
     dispatcher |-> [n \in Nodes |-> NoNode],
     scanned |-> [n \in Nodes |-> {}],
     readyAt |-> [n \in Nodes |-> {}],
     raisedAt |-> NoNode,
     joint |-> [n \in Nodes |-> FALSE],
     predsAt |-> [n \in Nodes |-> {}],
     inputs |-> [n \in Nodes |-> {}]]

\* lines 182-189, for the successors ds of node
Dispatch(st, g, res, node, ds) ==
    [st EXCEPT
       !.pend = @ \cup {Task(d, process_outputs(predecessors(g, d), res)) : d \in ds},
       !.cnt = [n \in Nodes |-> IF n \in ds THEN @[n] + 1 ELSE @[n]],
       !.hist.unmet = [n \in Nodes |->
                         IF n \in ds
                         THEN @[n] \cup {i \in predecessors(g, n) :
                                           res[i].kind = "none" \/ i \notin st.comp}
                         ELSE @[n]],
       !.hist.dispatcher = [n \in Nodes |-> IF n \in ds THEN node ELSE @[n]],
       !.hist.joint = [n \in Nodes |->
                         IF n \in ds
                         THEN Cardinality(predecessors(g, n) \cap st.round) >= 2
                         ELSE @[n]],
       !.hist.predsAt = [n \in Nodes |-> IF n \in ds THEN predecessors(g, n) ELSE @[n]],
       !.hist.inputs = [n \in Nodes |->
                          IF n \in ds THEN process_outputs(predecessors(g, n), res)
                          ELSE @[n]]]

\* lines 180-189: the successors are scanned in the order of the graph's
\* successor set; process_outputs raising ends schedule, after the
\* successors scanned before it were dispatched
ReadinessScan(st, g, res, node, ds) ==
    LET ready == {d \in ds : IsReady(g, res, d)}
        bad == {d \in ready : process_outputs_raises(predecessors(g, d), res)}
        base == [st EXCEPT
                   !.g = g, !.res = res,
                   !.hist.scanned[node] = ds,
                   !.hist.readyAt[node] =
                       {d \in ds : \A i \in DOMAIN g : d \in g[i] => res[i].kind # "none"}]
    IN  IF bad = {}
        THEN {Dispatch(base, g, res, node, ready)}
        ELSE {[Dispatch(base, g, res, node, S) EXCEPT !.failed = TRUE,
                                                      !.hist.raisedAt = node]
                : S \in SUBSET (ready \ bad)}

ProcessDone(st, t, r, strm) ==
    IF t.raises
    THEN {[st EXCEPT !.failed = TRUE, !.hist.raisedAt = t.node]}   \* line 151 re-raises
    ELSE
      LET node == t.rnode
          response == t.rresp
          res1 == [st.res EXCEPT ![node] = response]       \* line 152
          ds0 == downstream(st.g, node)                    \* line 155
          b0 == [g |-> st.g, ds |-> ds0, res |-> res1, failed |-> FALSE]
      IN  IF response.kind = "audio"
          THEN \* line 158: "downstream_black_list" in bytes raises TypeError
               {[st EXCEPT !.res = res1, !.failed = TRUE, !.hist.raisedAt = node]}
          ELSE
            LET b == IF response.kind # "stream" /\ response.hasbl
                     THEN ApplyBlackList(b0, response.bl, r, node, response, strm)
                     ELSE b0
            IN  IF b.failed
                THEN {[st EXCEPT !.g = b.g, !.res = b.res, !.failed = TRUE,
                                 !.hist.raisedAt = node]}
                ELSE ReadinessScan(st, b.g, b.res, node, b.ds)

\* the for loop over done (line 150), for one order of the done set
RECURSIVE RunRound(_, _, _, _)
RunRound(S, order, r, strm) ==
    IF order = <<>> THEN S
    ELSE RunRound(UNION {IF st.failed THEN {st} ELSE ProcessDone(st, Head(order), r, strm)
                           : st \in S},
                  Tail(order), r, strm)

Orders(D) == {o \in [1..Cardinality(D) -> D] : \A i, j \in DOMAIN o : i # j => o[i] # o[j]}

\* faulty variant: the loop of lines 197-199 deletes nothing
DeleteNodes_none(g, ns) == g

\* lines 197-199
RECURSIVE DeleteNodes(_, _)
DeleteNodes(g, ns) ==
    IF ns = {} THEN g
    ELSE LET n == CHOOSE x \in ns : TRUE
         IN  DeleteNodes(delete_node_if_exists(g, n), ns \ {n})

\* faulty variant: line 192 (nodes_to_keep.append(i)) is missing
FinalPrune_dropRoots(g, ind) ==
    LET nodes_to_keep == UNION {all_downstreams(g, i) : i \in ind \cap DOMAIN g}
    IN  DeleteNodes(g, (DOMAIN g) \ nodes_to_keep)

\* lines 190-199
FinalPrune(g, ind) ==
    LET nodes_to_keep == ind \cup UNION {all_downstreams(g, i) : i \in ind \cap DOMAIN g}
    IN  DeleteNodes(g, (DOMAIN g) \ nodes_to_keep)

(***************************************************************************)
(* Wire format (section 6 of the specification).                           *)
(***************************************************************************)
DataPrefix == <<"d", "a", "t", "a", ":", " ">>
DoneMark == <<"[", "D", "O", "N", "E", "]">>
NLNL == <<"\n", "\n">>
DoneChunk == DataPrefix \o DoneMark \o NLNL

\* the text field of a structured payload
TextOf(n) == <<"o", "k">>

\* what the streaming LLM sends in the scheduling specifications
SchedUpstream == <<DoneChunk>>

(***************************************************************************)
(* execute (lines 234-386): what the task returns.                         *)
(***************************************************************************)
is_llm_vlm(n) == services[n] = "LLM"

\* faulty variant: the runtime graph shares the template's dict
deepcopy_alias(r) == TemplateRef

\* line 134: copy.deepcopy gives the request a graph object of its own
deepcopy_ref(r) == r

\* faulty variant: a task for every node of the graph
SeedNodes_all(g) == DOMAIN g

\* lines 140-146: the nodes schedule starts with
SeedNodes(g) == ind_nodes(g)

Start(r) ==
    /\ r \in 1..nreq
    /\ pc[r] = "idle"
    /\ LET ref == deepcopy_ref(r)
           ind == SeedNodes(heap[TemplateRef])
       IN    /\ metrics' = pending_update(metrics, TRUE)
             /\ incs' = [incs EXCEPT ![r] = @ + 1]
             /\ rgraph' = [rgraph EXCEPT ![r] = ref]
             /\ heap' = [heap EXCEPT ![ref] = heap[TemplateRef]]
             /\ roots' = [roots EXCEPT ![r] = ind]
             /\ pending' = [pending EXCEPT ![r] = {Task(n, InitialInputs) : n \in ind}]
             /\ execCount' = [execCount EXCEPT ![r] =
                                [n \in Nodes |-> IF n \in ind THEN 1 ELSE 0]]
             /\ pc' = [pc EXCEPT ![r] = "wait"]
             /\ hist' = [hist EXCEPT ![r].unmet =
                            [n \in Nodes |-> IF n \in ind
                                             THEN predecessors(heap[TemplateRef], n)
                                             ELSE {}]]
    /\ UNCHANGED <<graph0, services, resp, nreq, stream, result_dict, completed, decs,
                   streams, envVars, thrVars>>

\* faulty variant: the assert of line 294 is missing
too_many_downstreams_unchecked(ds) == FALSE

\* line 294: assert len(downstream) == 1 fails
too_many_downstreams(ds) == Cardinality(ds) > 1

\* execute(cur_node = t.node) for a request with stream flag strm, on the
\* runtime graph g: the exception it raises or the pair it returns
execute(r, t, g, strm) ==
    LET n == t.node
        ds == downstream(g, n)
    IN  IF is_llm_vlm(n) /\ strm
        THEN \* lines 261-355
             IF resp[n].kind = "error" \/ too_many_downstreams(ds)
             THEN Raised(n)
             ELSE Returned(n, StreamingResponse(<<r, n, "llm">>),
                           IF ds = {} THEN n ELSE CHOOSE d \in ds : TRUE)
        ELSE \* lines 356-386
             IF resp[n].kind = "error" THEN Raised(n) ELSE Returned(n, resp[n], n)

\* the generator object execute builds at lines 299-355
NewStream(g, n) == StreamObj("open", TRUE, downstream(g, n) # {}, upstream, <<>>)

\* one turn of the while loop (lines 148-189): asyncio.wait returns the
\* tasks D that have finished, and the loop body handles them; when pending
\* is empty, the end of schedule (lines 190-204)
WaitRound(r) ==
    /\ r \in 1..nreq
    /\ pc[r] = "wait"
    /\ \E D \in (SUBSET pending[r]) \ {{}} :
         LET g0 == heap[rgraph[r]]
             done == {execute(r, t, g0, stream[r]) : t \in D}
             comp == completed[r] \cup {t.node : t \in D}
             st0 == [g |-> g0, res |-> result_dict[r],
                     pend |-> pending[r] \ D, cnt |-> execCount[r],
                     hist |-> hist[r], comp |-> comp, round |-> {t.node : t \in D},
                     failed |-> FALSE]
         IN  \E order \in Orders(done) :
             \E st \in RunRound({st0}, order, r, stream[r]) :
                LET finished == ~ st.failed /\ st.pend = {}
                    g1 == IF finished THEN FinalPrune(st.g, roots[r]) ELSE st.g
                    fakes == {n \in Nodes : st.res[n].sid = <<r, n, "fake">>}
                    llms == {d.node : d \in {x \in done : x.rresp.kind = "stream"}}
                IN  /\ heap' = [heap EXCEPT ![rgraph[r]] = g1]
                    /\ result_dict' = [result_dict EXCEPT ![r] = st.res]
                    /\ pending' = [pending EXCEPT ![r] = st.pend]
                    /\ execCount' = [execCount EXCEPT ![r] = st.cnt]
                    /\ hist' = [hist EXCEPT ![r] = st.hist]
                    /\ completed' = [completed EXCEPT ![r] = comp]
                    /\ streams' = [sid \in StreamIds |->
                                     IF sid[1] # r THEN streams[sid]
                                     ELSE IF sid[3] = "llm" /\ sid[2] \in llms
                                     THEN NewStream(g0, sid[2])
                                     ELSE IF sid[3] = "fake" /\ sid[2] \in fakes
                                             /\ streams[sid].st = "none"
                                     THEN StreamObj("open", TRUE, FALSE, <<>>, TextOf(sid[2]))
                                     ELSE streams[sid]]
                    /\ pc' = [pc EXCEPT ![r] = IF st.failed THEN "failed"
                                               ELSE IF finished THEN "done" ELSE "wait"]
                    /\ IF finished /\ ~ stream[r]
                       THEN /\ metrics' = pending_update(metrics, FALSE)
                            /\ decs' = [decs EXCEPT ![r] = @ + 1]
                       ELSE UNCHANGED <<metrics, decs>>
    /\ UNCHANGED <<graph0, services, resp, nreq, stream, rgraph, roots, incs, envVars,
                   thrVars>>

(***************************************************************************)
(* Strings.                                                                *)
(***************************************************************************)
StartsWith(s, p) == Len(s) >= Len(p) /\ SubSeq(s, 1, Len(p)) = p
EndsWith(s, p) == Len(s) >= Len(p) /\ SubSeq(s, Len(s) - Len(p) + 1, Len(s)) = p

RECURSIVE Concat(_)
Concat(ss) == IF ss = <<>> THEN <<>> ELSE Head(ss) \o Concat(Tail(ss))

IsSpace(c) == c \in {" ", "\n"}

\* the UTF-8 encoding of one character; bytes above 0x7f are named by
\* their two hexadecimal digits
Utf8(c) == IF c = "e'" THEN << <<"c", "3">>, <<"a", "9">> >> ELSE <<c>>

encode(s) == Concat([i \in 1..Len(s) |-> Utf8(s[i])])

\* repr() of a bytes object
ReprByte(b, quote) ==
    IF Len(b) = 2 THEN <<"\\", "x">> \o b
    ELSE IF b = "\\" THEN <<"\\", "\\">>
    ELSE IF b = "\n" THEN <<"\\", "n">>
    ELSE IF b = "'" /\ quote = "'" THEN <<"\\", "'">>
    ELSE <<b>>

repr(bs) ==
    LET has(c) == \E i \in 1..Len(bs) : bs[i] = c
        quote == IF has("'") /\ ~ has("\"") THEN "\"" ELSE "'"
    IN  <<"b", quote>> \o Concat([i \in 1..Len(bs) |-> ReprByte(bs[i], quote)]) \o <<quote>>

\* str.replace("\\n", "\n"): a backslash followed by n becomes a newline
RECURSIVE UnescapeNewline(_)
UnescapeNewline(s) ==
    IF s = <<>> THEN <<>>
    ELSE IF Len(s) >= 2 /\ s[1] = "\\" /\ s[2] = "n"
    THEN <<"\n">> \o UnescapeNewline(SubSeq(s, 3, Len(s)))
    ELSE <<s[1]>> \o UnescapeNewline(Tail(s))

\* re.findall(r"\s?\S+\s?", sentence): the matches from position i on
RECURSIVE Tokens(_, _)
Tokens(s, i) ==
    IF i > Len(s) THEN <<>>
    ELSE LET lead == IF IsSpace(s[i]) /\ i < Len(s) /\ ~ IsSpace(s[i + 1]) THEN 1 ELSE 0
             b == i + lead
         IN  IF IsSpace(s[b]) THEN Tokens(s, i + 1)
             ELSE LET stop == IF \E k \in b..Len(s) : IsSpace(s[k])
                              THEN (CHOOSE k \in b..Len(s) :
                                      IsSpace(s[k]) /\ \A m \in b..(k - 1) : ~ IsSpace(s[m]))
                              ELSE Len(s)
                  IN  <<SubSeq(s, i, stop)>> \o Tokens(s, stop + 1)

\* faulty variant of lines 427-428: the terminator follows every reply
token_generator_alwaysDone(sentence, is_last) ==
    LET tokens == Tokens(sentence, 1)
    IN  [i \in 1..Len(tokens) |-> DataPrefix \o repr(encode(UnescapeNewline(tokens[i]))) \o NLNL]
          \o <<DoneChunk>>

\* line 425
Frame(token) == DataPrefix \o repr(encode(UnescapeNewline(token))) \o NLNL

\* token_generator (lines 419-428): the events it yields
token_generator(sentence, is_last) ==
    LET tokens == Tokens(sentence, 1)
    IN  [i \in 1..Len(tokens) |-> Frame(tokens[i])]
          \o (IF is_last THEN <<DoneChunk>> ELSE <<>>)

\* lines 406-417
extract_chunk_str(chunk_str) ==
    IF chunk_str = DoneChunk THEN <<>>
    ELSE
      LET prefix == DataPrefix \o <<"b", "'">>
          prefix_2 == DataPrefix \o <<"b", "\"">>
          suffix == <<"'">> \o NLNL
          suffix_2 == <<"\"">> \o NLNL
          c1 == IF StartsWith(chunk_str, prefix) \/ StartsWith(chunk_str, prefix_2)
                THEN SubSeq(chunk_str, Len(prefix) + 1, Len(chunk_str))
                ELSE chunk_str
      IN  IF EndsWith(c1, suffix) \/ EndsWith(c1, suffix_2)
          THEN SubSeq(c1, 1, Len(c1) - Len(suffix))
          ELSE c1

\* line 296
hitted_ends == {".", "?", "!", "o.", ",,", "!!"}

(***************************************************************************)
(* The generators behind a StreamingResponse, driven by the client that    *)
(* iterates the response schedule returned.                                *)
(***************************************************************************)
Returned_stream(r, sid) ==
    /\ sid[1] = r
    /\ r \in 1..nreq
    /\ pc[r] = "done"
    /\ \E n \in Nodes : result_dict[r][n] = StreamingResponse(sid)

\* what the downstream service answers to a POST of a flushed segment
ReplyTexts == {<<>>, <<"o", "k">>, <<"a", " ", "b">>}
Replies == {[hastext |-> FALSE, text |-> <<>>]}
             \cup {[hastext |-> TRUE, text |-> x] : x \in ReplyTexts}

\* line 301: the first next() finds the upstream response truthy or not
GenOpen(sid) ==
    /\ Returned_stream(sid[1], sid)
    /\ sid[3] = "llm"
    /\ streams[sid].st = "open"
    /\ \E ok \in BOOLEAN :
         streams' = [streams EXCEPT ![sid].ok = ok,
                                    ![sid].st = IF ok THEN "iter" ELSE "closed"]
    /\ UNCHANGED <<schedVars, metrics, envVars, thrVars>>

\* lines 305-347: one chunk of the upstream response
GenChunk(sid) ==
    /\ Returned_stream(sid[1], sid)
    /\ sid[3] = "llm"
    /\ streams[sid].st = "iter"
    /\ streams[sid].up # <<>>
    /\ LET so == streams[sid]
           chunk == Head(so.up)
           rest == [so EXCEPT !.up = Tail(so.up)]
       IN  IF chunk = <<>>
           THEN /\ streams' = [streams EXCEPT ![sid] = rest]
                /\ UNCHANGED metrics
           ELSE IF so.down
           THEN LET buffered_chunk_str == so.buf \o extract_chunk_str(chunk)
                    is_last == EndsWith(chunk, DoneMark \o NLNL)
                IN  IF (buffered_chunk_str # <<>>
                          /\ buffered_chunk_str[Len(buffered_chunk_str)] \in hitted_ends)
                       \/ is_last
                    THEN \E reply \in Replies :
                           IF ~ reply.hastext
                           THEN /\ streams' = [streams EXCEPT ![sid] =
                                    [rest EXCEPT !.buf = buffered_chunk_str,
                                                 !.posts = Append(@, buffered_chunk_str),
                                                 !.st = "failed"]]
                                /\ UNCHANGED metrics
                           ELSE LET out == token_generator(reply.text, is_last)
                                    ntok == Len(Tokens(reply.text, 1))
                                IN  /\ streams' = [streams EXCEPT ![sid] =
                                        [rest EXCEPT !.buf = <<>>,
                                                     !.posts = Append(@, buffered_chunk_str),
                                                     !.events = @ \o out,
                                                     !.is_first = FALSE]]
                                    /\ metrics' = IF ntok > 0
                                                  THEN [token_update(metrics) EXCEPT
                                                          !.applied["token"] = @ + ntok - 1]
                                                  ELSE metrics
                    ELSE /\ streams' = [streams EXCEPT ![sid] =
                                          [rest EXCEPT !.buf = buffered_chunk_str]]
                         /\ UNCHANGED metrics
           ELSE /\ streams' = [streams EXCEPT ![sid] =
                                 [rest EXCEPT !.events = Append(@, chunk),
                                              !.is_first = FALSE]]
                /\ metrics' = token_update(metrics)
    /\ UNCHANGED <<heap, graph0, services, resp, nreq, pc, stream, rgraph, roots,
                   result_dict, pending, execCount, hist, completed, incs, decs, envVars,
                   thrVars>>

\* lines 349-350: the upstream is exhausted
GenEnd(sid) ==
    /\ Returned_stream(sid[1], sid)
    /\ sid[3] = "llm"
    /\ streams[sid].st = "iter"
    /\ streams[sid].up = <<>>
    /\ streams' = [streams EXCEPT ![sid].st = "closed"]
    /\ metrics' = pending_update(request_update(metrics), FALSE)
    /\ decs' = [decs EXCEPT ![sid[1]] = @ + 1]
    /\ UNCHANGED <<heap, graph0, services, resp, nreq, pc, stream, rgraph, roots,
                   result_dict, pending, execCount, hist, completed, incs, envVars,
                   thrVars>>

\* fake_stream (lines 172-174): one event per next()
fake_stream(text) == <<DataPrefix \o <<"b", "'">> \o text \o <<"'">> \o NLNL, DoneChunk>>

FakeNext(sid) ==
    /\ Returned_stream(sid[1], sid)
    /\ sid[3] = "fake"
    /\ streams[sid].st \in {"open", "iter"}
    /\ LET so == streams[sid]
           k == Len(so.events) + 1
       IN  streams' = [streams EXCEPT ![sid] =
                         IF k > Len(fake_stream(so.text))
                         THEN [so EXCEPT !.st = "closed"]
                         ELSE [so EXCEPT !.st = "iter",
                                         !.events = Append(@, fake_stream(so.text)[k])]]
    /\ UNCHANGED <<schedVars, metrics, envVars, thrVars>>

(***************************************************************************)
(* Configurations: the template graph built with add / flow_to, the        *)
(* service types and the answers of the remote services.                   *)
(***************************************************************************)
Templates ==
    {g \in [Nodes -> SUBSET Nodes] : \A n \in Nodes : \A m \in g[n] : Idx(n) < Idx(m)}

LLMSets == {{}, {NB}}

ServiceConfigs == {[n \in Nodes |-> IF n \in L THEN "LLM" ELSE "OTHER"] : L \in LLMSets}

BlackShapes == {[kind |-> "json", bl |-> bl, hastext |-> TRUE] : bl \in BlackLists}

SpecialShapes ==
    {[kind |-> "audio", bl |-> <<>>, hastext |-> FALSE],
     [kind |-> "error", bl |-> <<>>, hastext |-> FALSE]} \cup BlackShapes

RespOf(n, sh) ==
    CASE sh.kind = "audio" -> AudioBytes
      [] sh.kind = "error" -> TransportError
      [] OTHER -> Payload(n, TRUE, sh.bl, sh.hastext)

RespConfigs(shapes, k) ==
    UNION {{[n \in Nodes |-> IF n \in S THEN RespOf(n, f[n]) ELSE PlainOf(n)]
              : f \in [S -> shapes]}
             : S \in {T \in SUBSET Nodes : Cardinality(T) <= k}}

InitCommon ==
    /\ heap = [ref \in Refs |-> IF ref = TemplateRef THEN graph0 ELSE NullGraph]
    /\ pc = [r \in Requests |-> "idle"]
    /\ rgraph = [r \in Requests |-> r]
    /\ roots = [r \in Requests |-> {}]
    /\ result_dict = [r \in Requests |-> [n \in Nodes |-> NoResult]]
    /\ pending = [r \in Requests |-> {}]
    /\ execCount = [r \in Requests |-> [n \in Nodes |-> 0]]
    /\ hist = [r \in Requests |-> HistInit]
    /\ completed = [r \in Requests |-> {}]
    /\ incs = [r \in Requests |-> 0]
    /\ decs = [r \in Requests |-> 0]
    /\ metrics = MetricsInit
    /\ streams = [sid \in StreamIds |-> NoStream]
    /\ lock = NoThread
    /\ tpc = [t \in Threads |-> "idle"]
    /\ top = [t \in Threads |-> "pending"]
    /\ tsaw = [t \in Threads |-> "none"]

\* no token string is under way
RtNone == [t |-> <<>>, frame |-> <<>>, out |-> <<>>, step |-> "none"]

Init ==
    /\ graph0 \in Templates
    /\ services \in ServiceConfigs
    /\ resp \in RespConfigs(SpecialShapes, MaxSpecial)
    /\ upstream = SchedUpstream
    /\ uptokens = <<>>
    /\ rt = RtNone
    /\ nreq = 1
    /\ stream \in [Requests -> BOOLEAN]
    /\ \A r \in Requests : r > nreq => ~ stream[r]
    \* a unary request treats every service alike; a streaming one has the LLM B
    /\ stream[1] <=> services[NB] = "LLM"
    /\ InitCommon

\* unary requests in flight together in one process, on black-listing services
OverlapShapes == {sh \in BlackShapes : sh.bl = <<PAll>>}

\* templates with two or three edges, all entering or leaving the service C
HubTemplates ==
    {g \in Templates :
        /\ \A n \in Nodes : \A m \in g[n] : NC \in {n, m}
        /\ Cardinality({e \in Nodes \X Nodes : e[2] \in g[e[1]]}) >= 2}

InitOverlap ==
    /\ graph0 \in HubTemplates
    /\ services = [n \in Nodes |-> "OTHER"]
    /\ resp \in RespConfigs(OverlapShapes, MaxBlack)
    /\ upstream = SchedUpstream
    /\ uptokens = <<>>
    /\ rt = RtNone
    /\ nreq = MaxRequests
    /\ stream = [r \in Requests |-> FALSE]
    /\ InitCommon

\* schedule alone: what happens up to the return of schedule
NextSched ==
    \/ \E r \in Requests : Start(r)
    \/ \E r \in Requests : WaitRound(r)

\* schedule and the clients that read the streams it returned
Next ==
    \/ \E r \in Requests : Start(r)
    \/ \E r \in Requests : WaitRound(r)
    \/ \E sid \in StreamIds : GenOpen(sid)
    \/ \E sid \in StreamIds : GenChunk(sid)
    \/ \E sid \in StreamIds : GenEnd(sid)
    \/ \E sid \in StreamIds : FakeNext(sid)

Spec == Init /\ [][NextSched]_vars

\* plain payloads, or one of: A answers audio bytes, C answers the black
\* list [".*"], the call of C raises
LiveResps ==
    {[n \in Nodes |-> PlainOf(n)],
     [n \in Nodes |-> IF n = NA THEN AudioBytes ELSE PlainOf(n)],
     [n \in Nodes |-> IF n = NC THEN Payload(n, TRUE, <<PAll>>, TRUE) ELSE PlainOf(n)],
     [n \in Nodes |-> IF n = NC THEN TransportError ELSE PlainOf(n)]}

InitLive ==
    /\ graph0 \in Templates
    /\ services \in ServiceConfigs
    /\ resp \in LiveResps
    /\ upstream = SchedUpstream
    /\ uptokens = <<>>
    /\ rt = RtNone
    /\ nreq = 1
    /\ stream = [r \in Requests |-> r = 1 /\ services[NB] = "LLM"]
    /\ InitCommon

\* every call of a service ends and asyncio.wait returns once a task is done:
\* a request that waits on a non-empty pending set takes its next turn
SpecLive ==
    InitLive /\ [][NextSched]_vars /\ WF_vars(\E r \in Requests : WaitRound(r))

\* tokens a streaming LLM service sends, each in a chunk of its own
UpTokens == {<<"H", "i">>, <<" ", "e'">>, <<".">>}

RECURSIVE SeqsUpTo(_, _)
SeqsUpTo(S, k) ==
    IF k = 0 THEN {<<>>}
    ELSE LET shorter == SeqsUpTo(S, k - 1)
         IN  shorter \cup {Append(q, x) : q \in shorter, x \in S}

\* a well-formed upstream stream: framed token chunks ended by one [DONE] chunk
WellFormed(q) == [i \in 1..Len(q) |-> Frame(q[i])] \o <<DoneChunk>>

\* the five tokens "Hi", " there", ".", " How", "?"
ExampleTokens ==
    << <<"H", "i">>, <<" ", "t", "h", "e", "r", "e">>, <<".">>,
       <<" ", "H", "o", "w">>, <<"?">> >>

UpTokenSeqs == SeqsUpTo(UpTokens, MaxTokens) \cup {ExampleTokens}

WellFormedUpstreams == {WellFormed(q) : q \in UpTokenSeqs}

\* B and CD are streaming LLM services; A may feed them, C may follow B
StreamTemplates ==
    {g \in Templates :
        \A n \in Nodes : \A m \in g[n] : <<n, m>> \in {<<NA, NB>>, <<NB, NC>>, <<NA, ND>>}}

\* plain payloads, or A answering with the black list [".*"]
StreamResps ==
    {[n \in Nodes |-> IF n = NA /\ hasbl THEN Payload(n, TRUE, <<PAll>>, TRUE) ELSE PlainOf(n)]
        : hasbl \in BOOLEAN}

\* one streaming request: pass-through, forward and synthesized streams
InitStream ==
    /\ graph0 \in StreamTemplates
    /\ services = [n \in Nodes |-> IF n \in {NB, ND} THEN "LLM" ELSE "OTHER"]
    /\ resp \in StreamResps
    /\ uptokens \in UpTokenSeqs
    /\ upstream = WellFormed(uptokens)
    /\ upstream \in WellFormedUpstreams
    /\ rt = RtNone
    /\ nreq = 1
    /\ stream = [r \in Requests |-> r = 1]
    /\ InitCommon

SpecStream == InitStream /\ [][Next]_vars

\* an upstream stream that ends without a [DONE] chunk: the LLM service
\* closes the connection after its last token
Truncated(q) == [i \in 1..Len(q) |-> Frame(q[i])]

\* one streaming request on an upstream that closes without [DONE]
InitTruncated ==
    /\ graph0 \in StreamTemplates
    /\ services = [n \in Nodes |-> IF n \in {NB, ND} THEN "LLM" ELSE "OTHER"]
    /\ resp \in StreamResps
    /\ uptokens \in SeqsUpTo(UpTokens, MaxTokens)
    /\ upstream = Truncated(uptokens)
    /\ rt = RtNone
    /\ nreq = 1
    /\ stream = [r \in Requests |-> r = 1]
    /\ InitCommon

SpecTruncated == InitTruncated /\ [][Next]_vars

\* K threads and no request: the first calls of the metric update methods
InitMetrics ==
    /\ graph0 = [n \in Nodes |-> {}]
    /\ services = [n \in Nodes |-> "OTHER"]
    /\ resp = [n \in Nodes |-> PlainOf(n)]
    /\ upstream = SchedUpstream
    /\ uptokens = <<>>
    /\ rt = RtNone
    /\ nreq = 0
    /\ stream = [r \in Requests |-> FALSE]
    /\ InitCommon

NextMetrics ==
    \/ \E t \in Threads : \E op \in Ops : TCall(t, op)
    \/ \E t \in Threads : TAcquire(t)
    \/ \E t \in Threads : TCheck(t)
    \/ \E t \in Threads : TConstruct(t)
    \/ \E t \in Threads : TAssign(t)
    \/ \E t \in Threads : TRelease(t)
    \/ \E t \in Threads : TReal(t)

SpecMetrics == InitMetrics /\ [][NextMetrics]_vars

SpecOverlap == InitOverlap /\ [][NextSched]_vars

\* the characters of token strings: letters, white space, a sentence end,
\* quotes, the backslash and the two-byte character e-acute
TokenChars == {"a", "n", " ", "\n", ".", "'", "\"", "\\", "e'"}

TokenStrings == SeqsUpTo(TokenChars, MaxTokenLen) \ {<<>>}

\* line 425: token_generator yields the frame of one token
YieldFrame ==
    /\ rt.step = "token"
    /\ rt' = [rt EXCEPT !.frame = Frame(rt.t), !.step = "framed"]
    /\ UNCHANGED <<schedVars, metrics, streams, upstream, uptokens, thrVars>>

\* lines 406-417: extract_chunk_str on that frame
ExtractChunk ==
    /\ rt.step = "framed"
    /\ rt' = [rt EXCEPT !.out = extract_chunk_str(rt.frame), !.step = "extracted"]
    /\ UNCHANGED <<schedVars, metrics, streams, upstream, uptokens, thrVars>>

InitFraming ==
    /\ graph0 = [n \in Nodes |-> {}]
    /\ services = [n \in Nodes |-> "OTHER"]
    /\ resp = [n \in Nodes |-> PlainOf(n)]
    /\ upstream = <<>>
    /\ uptokens = <<>>
    /\ rt \in {[t |-> t, frame |-> <<>>, out |-> <<>>, step |-> "token"] : t \in TokenStrings}
    /\ nreq = 0
    /\ stream = [r \in Requests |-> FALSE]
    /\ InitCommon

NextFraming == YieldFrame \/ ExtractChunk

SpecFraming == InitFraming /\ [][NextFraming]_vars

(***************************************************************************)
(* Properties of the schedule engine.                                      *)
(***************************************************************************)
RG(r) == heap[rgraph[r]]

\* node n of request r answered with its structured payload and schedule
\* handled that completion (lines 151-189)
Handled(r, n) ==
    /\ resp[n].kind = "json"
    /\ ~ (is_llm_vlm(n) /\ stream[r])
    /\ result_dict[r][n] \in {resp[n], StreamingResponse(<<r, n, "fake">>)}

\* the payload of n carries a well-formed pattern that matches d
BlackListed(n, d) ==
    /\ resp[n].kind = "json"
    /\ resp[n].hasbl
    /\ \E i \in 1..Len(resp[n].bl) : ~ re_error(resp[n].bl[i]) /\ re_findall(resp[n].bl[i], d)

\* C1: Topological execution.  Whenever execute(v) was started, every
\* predecessor u of v in the runtime graph had already returned from execute
\* and had its response in the result table.
TopologicalExecution ==
    \A r \in Requests : \A v \in Nodes :
        execCount[r][v] > 0 => hist[r].unmet[v] = {}

\* a node with two predecessors has been dispatched in a streaming request
TopologicalWitness ==
    \E v \in Nodes :
        /\ execCount[1][v] > 0
        /\ Cardinality(predecessors(graph0, v)) >= 2
        /\ hist[1].dispatcher[v] # NoNode
        /\ stream[1]

\* C2: Single-dispatch.  Within one request execute is invoked at most once
\* for each node.
SingleDispatch ==
    \A r \in Requests : \A n \in Nodes : execCount[r][n] <= 1

\* a node was dispatched in the turn in which two of its predecessors were
\* returned as done together
SingleDispatchWitness ==
    \E n \in Nodes : execCount[1][n] = 1 /\ hist[1].joint[n]

\* C5: Black-list pruning order.  Once schedule has handled the completion of
\* n, whose black list matches its successor d: the readiness scan of n did
\* not go over d, the completion of n did not dispatch d, the edge (n, d) is
\* not in the runtime graph, and d was never executed when n was its only
\* predecessor.
BlackListPruningOrder ==
    \A r \in Requests : \A n \in Nodes : \A d \in graph0[n] :
        (Handled(r, n) /\ BlackListed(n, d)) =>
            /\ d \notin hist[r].scanned[n]
            /\ hist[r].dispatcher[d] # n
            /\ n \in DOMAIN RG(r) => d \notin RG(r)[n]
            /\ predecessors(graph0, d) = {n} => execCount[r][d] = 0

\* schedule returned after it pruned the only edge into d, while another
\* successor of the same node was dispatched
BlackListPruningWitness ==
    \E n \in Nodes : \E d, e \in graph0[n] :
        /\ pc[1] = "done"
        /\ Handled(1, n) /\ BlackListed(n, d)
        /\ predecessors(graph0, d) = {n}
        /\ hist[1].dispatcher[e] = n

\* C10: Malformed black-list pattern.  A pattern that is no regular
\* expression deletes no edge and ends neither the pattern loop nor the
\* request: the successors that no well-formed pattern of the list matches
\* keep their edge and are scanned, the matched ones are pruned, and every
\* scanned successor whose predecessors all had results is dispatched by
\* that scan, unless the scan itself fails on a predecessor whose result is a
\* stream.
HasMalformed(n) ==
    /\ resp[n].kind = "json"
    /\ resp[n].hasbl
    /\ \E i \in 1..Len(resp[n].bl) : re_error(resp[n].bl[i])

StreamsOver(r) ==
    \A sid \in StreamIds :
        (sid[1] = r /\ \E n \in Nodes : result_dict[r][n] = StreamingResponse(sid))
            => streams[sid].st \in {"closed", "failed"}

RequestOver(r) == pc[r] = "failed" \/ (pc[r] = "done" /\ StreamsOver(r))

\* C4: Pending gauge exactly-once.  Every request increments the gauge once
\* when schedule starts and has decremented it exactly once when it is over,
\* on every exit path, and never decrements it twice.
PendingGaugeExactlyOnce ==
    \A r \in Requests :
        /\ pc[r] # "idle" => incs[r] = 1
        /\ decs[r] <= 1
        /\ RequestOver(r) => decs[r] = 1

\* C6: Stream conformance fallback.  In a request with stream true, a node
\* that answered with a structured payload with a text field and has no
\* successor left after pruning holds the synthesized two-event stream in the
\* result table, with or without a black list in the payload.
StreamFallbackAlways ==
    \A r \in Requests : \A n \in Nodes :
        (/\ stream[r]
         /\ Handled(r, n)
         /\ resp[n].hastext
         /\ n \in DOMAIN RG(r)
         /\ RG(r)[n] = {})
          => /\ result_dict[r][n] = StreamingResponse(<<r, n, "fake">>)
             /\ streams[<<r, n, "fake">>].st # "none"
             /\ fake_stream(streams[<<r, n, "fake">>].text)
                  = <<DataPrefix \o <<"b", "'">> \o TextOf(n) \o <<"'">> \o NLNL, DoneChunk>>

\* C3: Black-list determinism.  Two requests of the same shape on the same
\* payloads end with the same runtime graph, whatever the order in which
\* their tasks completed.
BlackListDeterminism ==
    \A r1 \in Requests : \A r2 \in Requests :
        (pc[r1] = "done" /\ pc[r2] = "done" /\ stream[r1] = stream[r2])
            => RG(r1) = RG(r2)

\* C9: Template isolation.  The template graph is never changed by a
\* request, and every request starts from a runtime graph equal to it.
TemplateIsolation ==
    /\ heap[TemplateRef] = graph0
    /\ \A r \in Requests :
         (pc[r] = "wait" /\ completed[r] = {}) => RG(r) = graph0

\* a request starts while another one has already pruned its runtime graph
TemplateIsolationWitness ==
    \E r1 \in Requests : \E r2 \in Requests :
        /\ r1 # r2
        /\ pc[r1] \in {"wait", "done"}
        /\ completed[r1] # {}
        /\ RG(r1) # graph0
        /\ pc[r2] = "wait"
        /\ completed[r2] = {}

\* C8: Metric singleton.  Whatever the interleaving of the threads that
\* make the first call of an update operation, every metric name is
\* registered at most once, and exactly once when a call of its operation
\* has returned.
MetricSingleton ==
    /\ \A nm \in MetricNames : metrics.registered[nm] <= 1
    /\ \A t \in Threads :
         tpc[t] = "done" => \A nm \in NamesOf(top[t]) : metrics.registered[nm] = 1

\* all K threads entered the creating method of one operation and returned
MetricSingletonWitness ==
    /\ \A t \in Threads : tpc[t] = "done" /\ tsaw[t] = "create" /\ top[t] = "token"
    /\ metrics.applied["token"] = MaxThreads

\* the events a client has received from stream sid
Events(sid) == streams[sid].events

\* one [DONE] event, at the end, after events that begin with "data: "
Conformant(ev) ==
    /\ Len(ev) > 0
    /\ ev[Len(ev)] = DoneChunk
    /\ \A i \in 1..(Len(ev) - 1) : ev[i] # DoneChunk /\ StartsWith(ev[i], DataPrefix)

\* C7 as stated: Stream conformance.  Every stream of a request on a
\* well-formed upstream that has ended, in any of the three modes, delivered
\* exactly one [DONE] event, as its last event, after events that begin
\* with "data: ".
StreamConformance ==
    \A sid \in StreamIds :
        (streams[sid].st \in {"closed", "failed"} /\ streams[sid].ok)
            => Conformant(Events(sid))

\* C7, amended: Stream conformance of the streams whose generator ran to
\* the end of the upstream: they delivered exactly one [DONE] event, as the
\* last event, after events that begin with "data: "; and no stream, ended
\* or not, delivers an event after [DONE] or an event without the prefix.
StreamConformanceOnCompletion ==
    \A sid \in StreamIds :
        /\ (streams[sid].st = "closed" /\ streams[sid].ok) => Conformant(Events(sid))
        /\ \A i \in 1..Len(Events(sid)) :
             /\ StartsWith(Events(sid)[i], DataPrefix)
             /\ Events(sid)[i] = DoneChunk => i = Len(Events(sid))

\* a forward-mode stream flushed twice, re-framed several tokens and ended
StreamConformanceWitness ==
    \E sid \in StreamIds :
        /\ sid[3] = "llm"
        /\ streams[sid].st = "closed"
        /\ streams[sid].down
        /\ Len(streams[sid].posts) >= 2
        /\ Len(Events(sid)) >= 4

\* the node under which execute returns the stream of the LLM/LVM node n
effective_node(n) == IF graph0[n] = {} THEN n ELSE CHOOSE d \in graph0[n] : TRUE

\* C11: Streaming topology limit.  In a streaming request, once execute of
\* an LLM/LVM node with more than one successor has run, the request has
\* failed and no StreamingResponse of that node exists; with zero or one
\* successor execute raises only when the call of the service does, and
\* unless the request failed the node's stream is in the result table.
StreamingTopologyLimit ==
    \A r \in Requests : \A n \in Nodes :
        (stream[r] /\ is_llm_vlm(n) /\ n \in completed[r]) =>
            IF Cardinality(graph0[n]) > 1
            THEN /\ pc[r] = "failed"
                 /\ streams[<<r, n, "llm">>].st = "none"
                 /\ \A m \in Nodes : result_dict[r][m].sid # <<r, n, "llm">>
            ELSE /\ hist[r].raisedAt = n => resp[n].kind = "error"
                 /\ pc[r] # "failed" =>
                        /\ resp[n].kind # "error"
                        /\ result_dict[r][effective_node(n)]
                              = StreamingResponse(<<r, n, "llm">>)

\* the LLM node B, fed by A, had two successors when its execute ran
StreamingTopologyWitness ==
    /\ stream[1] /\ is_llm_vlm(NB)
    /\ NB \in graph0[NA]
    /\ graph0[NB] = {NC, ND}
    /\ NB \in completed[1]
    /\ hist[1].raisedAt = NB
    /\ result_dict[1][NA] = resp[NA]

\* C12: Failure isolation.  When schedule is over, by a return or by an
\* exception, no task of the request is left in flight, and every node whose
\* execute has finished either has its entry in the result table (under the
\* node execute returned) or is the node whose failure was surfaced.
FailureIsolation ==
    \A r \in Requests :
        pc[r] \in {"done", "failed"} =>
            /\ pending[r] = {}
            /\ \A n \in completed[r] :
                   \/ hist[r].raisedAt = n
                   \/ \E m \in Nodes : result_dict[r][m].kind # "none" /\ m \in {n} \cup graph0[n]

\* C13: Round-trip framing.  For every token string t that does not contain
\* [DONE], extract_chunk_str applied to the frame token_generator yields for
\* t gives t back.
RoundTripFraming ==
    (rt.step = "extracted" /\ ~ IsSubstring(DoneMark, rt.t)) => rt.out = rt.t

\* no payload carries a black list and no call of a service raises
NoBlackListNoFailure ==
    \A n \in Nodes : resp[n].kind # "error" /\ ~ resp[n].hasbl

\* C14: Completeness.  In a unary request with no black lists and no node
\* failures, when schedule returns every node of the template was executed
\* once, the result table holds each node's own response, and the returned
\* runtime graph has the nodes and edges of the template.
Completeness ==
    \A r \in Requests :
        (pc[r] = "done" /\ ~ stream[r] /\ NoBlackListNoFailure) =>
            /\ \A n \in Nodes : result_dict[r][n] = resp[n] /\ execCount[r][n] = 1
            /\ RG(r) = graph0

\* schedule returned on the pipeline A -> B -> C: entries for A, B and C,
\* and C is a leaf of the returned graph
CompletenessWitness ==
    /\ pc[1] = "done" /\ ~ stream[1] /\ NoBlackListNoFailure
    /\ graph0[NA] = {NB} /\ graph0[NB] = {NC} /\ graph0[NC] = {}
    /\ \A n \in {NA, NB, NC} : result_dict[1][n] = PlainOf(n)
    /\ NC \in all_leaves(RG(1)) /\ NB \notin all_leaves(RG(1))

\* every call of a service in request r ends with a response
CallsComplete(r) ==
    \A n \in Nodes :
        /\ resp[n].kind # "error"
        /\ ~ (stream[r] /\ is_llm_vlm(n) /\ too_many_downstreams(graph0[n]))

\* C15: Termination.  When every dispatched call of a service completes,
\* the loop of schedule reaches an empty pending set and schedule returns.
Termination ==
    \A r \in Requests :
        (pc[r] = "wait" /\ CallsComplete(r)) ~> (pc[r] = "done" /\ pending[r] = {})

\* the keys of a mapping
Keys(d) == {q[1] : q \in d}

\* C16: Fan-in inputs.  A node d that a readiness scan dispatched was given
\* a mapping put together from the result-table entries of exactly the
\* predecessors it had in the runtime graph at that time, which are the
\* predecessors of the template whose black list does not match d: its keys
\* are the keys of their payloads, every value comes from one of them under
\* that key, each key occurs once, and so for disjoint keys the mapping is
\* the union of the payloads.  The task of d holds that mapping.
FanInInputs ==
    \A r \in Requests : \A d \in Nodes :
        hist[r].dispatcher[d] # NoNode =>
            LET P == hist[r].predsAt[d]
                inp == hist[r].inputs[d]
                outs == UNION {resp[p].data : p \in P}
            IN  /\ P = {p \in predecessors(graph0, d) : ~ BlackListed(p, d)}
                /\ P # {}
                /\ \A p \in P : resp[p].kind = "json"
                /\ inp \subseteq outs
                /\ Keys(inp) = Keys(outs)
                /\ \A q1, q2 \in inp : q1[1] = q2[1] => q1 = q2
                /\ \A p \in predecessors(graph0, d) \ P : <<p, p>> \notin inp
                /\ \A t \in pending[r] : t.node = d => t.inputs = inp

\* CD was dispatched with the outputs of A and B, after its third
\* predecessor C had pruned its edge to CD
FanInInputsWitness ==
    /\ predecessors(graph0, ND) = {NA, NB, NC}
    /\ BlackListed(NC, ND)
    /\ hist[1].dispatcher[ND] \in {NA, NB}
    /\ hist[1].predsAt[ND] = {NA, NB}
    /\ {<<NA, NA>>, <<NB, NB>>} \subseteq hist[1].inputs[ND]
    /\ pc[1] = "done"

\* C17: Stream only at a leaf.  While schedule runs and when it has
\* returned, every entry of the result table that is a StreamingResponse is
\* stored under a node without successors in the runtime graph.
StreamOnlyAtLeaf ==
    \A r \in Requests : \A n \in Nodes :
        (pc[r] \in {"wait", "done"} /\ result_dict[r][n].kind = "stream") =>
            (n \in DOMAIN RG(r) /\ downstream(RG(r), n) = {})

\* the edges of the template that black-list pruning left in request r
Surviving(r) ==
    [n \in Nodes |-> {d \in graph0[n] : ~ (Handled(r, n) /\ BlackListed(n, d))}]

\* the nodes in S and those that a path of g leads to from S
RECURSIVE Closure(_, _)
Closure(g, S) ==
    LET T == S \cup UNION {g[n] : n \in S}
    IN  IF T = S THEN S ELSE Closure(g, T)

\* C18: Final pruning.  When schedule returns, the nodes of the returned
\* runtime graph are exactly the nodes reachable from the roots of the
\* template along the edges that survived black-list pruning, with those
\* edges; every other node is gone.
FinalPruning ==
    \A r \in Requests :
        pc[r] = "done" =>
            LET keep == Closure(Surviving(r), ind_nodes(graph0))
            IN  /\ roots[r] = ind_nodes(graph0)
                /\ DOMAIN RG(r) = keep
                /\ \A n \in keep : RG(r)[n] = Surviving(r)[n]

\* schedule returned a graph without a node whose only edge was pruned,
\* and with a node that lost one of its two incoming edges
FinalPruningWitness ==
    /\ pc[1] = "done"
    /\ \E n \in Nodes : n \notin DOMAIN RG(1) /\ predecessors(graph0, n) # {}
    /\ \E d \in DOMAIN RG(1) : \E p, q \in predecessors(graph0, d) :
          /\ Handled(1, p) /\ BlackListed(p, d)
          /\ q \in DOMAIN RG(1) /\ d \in RG(1)[q]
          /\ execCount[1][d] = 1

\* the segments of the text of the tokens q, each ended by a token whose
\* last character is a sentence terminator, and the rest of the text if it
\* is not empty; buf is the text since the last segment
RECURSIVE Segments(_, _)
Segments(q, buf) ==
    IF q = <<>> THEN (IF buf = <<>> THEN <<>> ELSE <<buf>>)
    ELSE LET b == buf \o Head(q)
         IN  IF b # <<>> /\ b[Len(b)] \in hitted_ends
             THEN <<b>> \o Segments(Tail(q), <<>>)
             ELSE Segments(Tail(q), b)

\* C19: Sentence flushing.  In forward-through-downstream mode, when the
\* generator has read a well-formed upstream to its end, the bodies it
\* POSTed to the downstream node are exactly the terminator-ended segments
\* of the text of the tokens, in order: for "Hi", " there", ".", " How", "?"
\* the two bodies "Hi there." and " How?", and no other POST.
SentenceFlushing ==
    \A sid \in StreamIds :
        (/\ sid[3] = "llm"
         /\ streams[sid].down
         /\ streams[sid].ok
         /\ streams[sid].st = "closed")
          => streams[sid].posts = Segments(uptokens, <<>>)

\* C20: Audio payloads are not pruned on.  Once a node has completed with
\* raw audio bytes and schedule has recorded them in the result table, no
\* edge of the node is pruned, the readiness scan goes over its successors,
\* and the handling of that completion does not fail the request.
AudioNotPrunedOn ==
    \A r \in Requests : \A n \in Nodes :
        result_dict[r][n].kind = "audio" =>
            /\ hist[r].raisedAt # n
            /\ hist[r].scanned[n] = graph0[n]
            /\ n \in DOMAIN RG(r) => RG(r)[n] = graph0[n]

\* lines 400-404: get_all_final_outputs reads result_dict[leaf] for every
\* leaf of the runtime graph; a leaf without an entry raises KeyError
get_all_final_outputs_raises(res, g) ==
    \E leaf \in all_leaves(g) : res[leaf].kind = "none"

\* C21: Leaves have results.  Whenever schedule has returned, every leaf of
\* the returned runtime graph has an entry in the returned result table, so
\* that get_all_final_outputs does not fail on a missing key.
LeavesHaveResults ==
    \A r \in Requests :
        pc[r] = "done" => ~ get_all_final_outputs_raises(result_dict[r], RG(r))

\* the text extract_chunk_str takes from the chunks the upstream sent
Extracted(chunks) == Concat([i \in 1..Len(chunks) |-> extract_chunk_str(chunks[i])])

\* C22: No text left behind.  In forward-through-downstream mode, when the
\* generator has read the upstream to its end, the buffer is empty and the
\* bodies POSTed to the downstream node hold, in order, all the text
\* extracted from the upstream chunks, also when the upstream closed
\* without a [DONE] chunk.
NoTextLeftBehind ==
    \A sid \in StreamIds :
        (/\ sid[3] = "llm"
         /\ streams[sid].down
         /\ streams[sid].ok
         /\ streams[sid].st = "closed")
          => /\ streams[sid].buf = <<>>
             /\ Concat(streams[sid].posts) = Extracted(upstream)

\* C23: No lost metric update.  For every interleaving of the threads, the
\* number of updates applied to the metric of an operation is the number of
\* calls of that operation that have returned, whether the call created the
\* metric, lost the creation race or found the metric in place; a call that
\* is past the creation finds the real method and one registered metric.
NoLostMetricUpdate ==
    /\ \A op \in Ops :
          metrics.applied[op] = Cardinality({t \in Threads : tpc[t] = "done" /\ top[t] = op})
    /\ \A t \in Threads :
          tpc[t] = "real" =>
              /\ metrics.method[top[t]] = "real"
              /\ \A nm \in NamesOf(top[t]) : metrics.registered[nm] = 1

\* threads raced on the first call of pending_update, another one called
\* it later, and all their updates were applied
NoLostMetricUpdateWitness ==
    /\ \A t \in Threads : tpc[t] = "done" /\ top[t] = "pending"
    /\ Cardinality({t \in Threads : tsaw[t] = "create"}) >= 2
    /\ Cardinality({t \in Threads : tsaw[t] = "real"}) >= 1
    /\ metrics.applied["pending"] = MaxThreads
    /\ metrics.registered["megaservice_request_pending"] = 1

====
